---- MODULE Spec2Model ----
(***************************************************************************)
(* Model of consumer.py: the thermal and torque TCP listeners, the alert   *)
(* deduplication, the persisted thermal settings and the rolling history.  *)
(*                                                                         *)
(* Units.  Temperatures and torques are fixed point, in hundredths         *)
(* (30.0 degrees = 3000, 273.15 = 27315, 0.47 = 47).  Wall-clock time is   *)
(* in tenths of a second (5.0 s = 50).                                     *)
(***************************************************************************)
EXTENDS Integers, Sequences, FiniteSets, TLC

\* ------------------------------------------------------------ constants
ERROR_COOLDOWN == 50
FRAME_HISTORY_SIZE == 200
TORQUE_THRESHOLD == 47
KELVIN_OFFSET == 27315
KELVIN_LIMIT == 12000

DEFAULT_SETTINGS ==
    [thermal_threshold_c |-> 3000, thermal_warning_c |-> 3000, thermal_critical_c |-> 3300]

\* ------------------------------------------------------------ bounds
MaxThermalLines == 3
MaxTorqueLines == 2
MaxSystemLines == 2
MaxDedupThermal == 3
MaxDedupTorque == 2
MaxHistoryFrames == 202
MaxScaleFrames == 1
MaxSystemSends == 1
MaxSubscriberLines == 2
MaxSends == 2
MaxChunk == 3

\* The clock readings explored: 5.0 s and 5.1 s after the start.
Instants == {0, 50, 51}

\* ------------------------------------------------------------ JSON values
\* A JSON field is a number, a non-numeric string, or absent from the object.
Num(n) == [t |-> "num", v |-> n]
Str(n) == [t |-> "str", v |-> n]
Absent == [t |-> "absent", v |-> 0]

\* float(x) / int(x) succeed on numbers, raise on a non-numeric string.
IsNumeric(x) == x.t = "num"

\* An optional value (None or a value) is a sequence of length 0 or 1.
None == <<>>
Some(x) == <<x>>

\* ------------------------------------------------------------ input lines
\* A line of the thermal stream: blank, not JSON at all, or a JSON object.
ThermalObj(ts, tmin, tmax, tmean, fno) ==
    [kind |-> "json", timestamp |-> ts, t_min |-> tmin, t_max |-> tmax,
     t_mean |-> tmean, frame_no |-> fno]
BlankThermal == [ThermalObj(Absent, Absent, Absent, Absent, Absent) EXCEPT !.kind = "blank"]
GarbageThermal == [ThermalObj(Absent, Absent, Absent, Absent, Absent) EXCEPT !.kind = "garbage"]

\* A well-formed frame: t_max tm (hundredths), frame number fn.
Frame(tm, fn) == ThermalObj(Str(fn), Num(2000), Num(tm), Num(2500), Num(fn))

\* 29.00 C (below threshold), 32.00 C (WARNING), 307.15 K = 34.00 C (CRITICAL).
TMaxValues == {2900, 3200, 30715}
FrameNos == {1}
ValidThermal == {Frame(tm, fn) : tm \in TMaxValues, fn \in FrameNos}
MalformedThermal ==
    { GarbageThermal,
      [Frame(3200, 1) EXCEPT !.timestamp = Absent],
      [Frame(3200, 1) EXCEPT !.t_min = Str(0)],
      [Frame(3200, 1) EXCEPT !.t_max = Str(0)],
      [Frame(3200, 1) EXCEPT !.t_mean = Absent],
      [Frame(3200, 1) EXCEPT !.frame_no = Str(0)] }
ThermalLines == ValidThermal \cup MalformedThermal \cup {BlankThermal}

\* A line of the torque stream.  A list field is a list of JSON values or absent.
List(q) == [t |-> "list", v |-> q]
AbsentList == [t |-> "absent", v |-> <<>>]
Nums(q) == [i \in 1..Len(q) |-> Num(q[i])]
TorqueObj(actual, ideal, ts, fno) ==
    [kind |-> "json", torque_actual |-> actual, torque_ideal |-> ideal,
     timestamp |-> ts, frame_no |-> fno]
BlankTorque == [TorqueObj(AbsentList, AbsentList, Absent, Absent) EXCEPT !.kind = "blank"]
GarbageTorque == [TorqueObj(AbsentList, AbsentList, Absent, Absent) EXCEPT !.kind = "garbage"]

\* A well-formed torque frame: every ideal torque is 1.00.
Packet(actual, fn) ==
    TorqueObj(List(Nums(actual)), List(Nums(<<100, 100>>)), Str(fn), Num(fn))

\* diffs 0.00, 0.50 (WARNING) and 0.80 (CRITICAL) on two joints, and the
\* diffs around the alert threshold and the WARNING boundary: 0.48 with 0.40,
\* 0.47 with 0.31.
TorqueActuals ==
    {<<100, 100>>, <<150, 100>>, <<100, 180>>, <<150, 180>>, <<148, 140>>, <<147, 131>>}
ValidTorque == {Packet(a, 1) : a \in TorqueActuals}
MalformedTorque ==
    { GarbageTorque,
      [Packet(<<150, 100>>, 1) EXCEPT !.torque_actual = AbsentList],
      [Packet(<<150, 100>>, 1) EXCEPT !.torque_ideal = List(<<Num(100), Str(0)>>)],
      [Packet(<<150, 100>>, 1) EXCEPT !.timestamp = Absent],
      [Packet(<<100, 100>>, 1) EXCEPT !.frame_no = Absent] }
TorqueLines == ValidTorque \cup MalformedTorque \cup {BlankTorque}

\* ------------------------------------------------------------ byte streams
\* The bytes of a stream, as far as the line splitting tells them apart: a
\* line feed, the whole text of a line, or the first or second part of the
\* text of a line that the transport cut in two.
LF == [b |-> "lf"]
Whole(l) == [b |-> "whole", line |-> l]
First(l) == [b |-> "first", line |-> l]
Second(l) == [b |-> "second", line |-> l]
\* The producer closes its connection here.
EndOfStream == [b |-> "eof"]

\* Two connections of the thermal producer: frames 1 and 2 and the start of
\* frame 3, cut off before its line feed; then frame 4.
ThermalStream ==
    << First(Frame(3200, 1)), Second(Frame(3200, 1)), LF, Whole(Frame(3200, 2)), LF,
       First(Frame(3200, 3)), EndOfStream,
       First(Frame(3200, 4)), Second(Frame(3200, 4)), LF, EndOfStream >>

\* Two connections of the torque producer: packet 1 and the start of packet
\* 2, cut off before its line feed; then packet 3.
TorqueStream ==
    << First(Packet(<<150, 180>>, 1)), Second(Packet(<<150, 180>>, 1)), LF,
       First(Packet(<<150, 180>>, 2)), EndOfStream,
       Whole(Packet(<<150, 180>>, 3)), LF, EndOfStream >>

\* The concurrent calls of set_thermal_settings and the thresholds they carry
\* (36.0 and 28.5); the settings found on disk when the process first starts.
Updaters == {"call1", "call2"}
SetValues == {3600, 2850}
InitialSettings ==
    { DEFAULT_SETTINGS,
      [thermal_threshold_c |-> 3500, thermal_warning_c |-> 3100, thermal_critical_c |-> 3300] }

\* The samples (Celsius, hundredths) and threshold sets of the scale comparison:
\* every 5 degrees from -200 to 200, and the values around each boundary.
ScaleSamples ==
    {k * 500 : k \in -40..40} \cup
    {-15316, -15315, -15314, 2999, 3000, 3001, 3200, 3299, 3300, 3301, 3400,
     11999, 12000, 12001}
ScaleConfigs ==
    InitialSettings \cup {[DEFAULT_SETTINGS EXCEPT !.thermal_threshold_c = x] : x \in SetValues}

VARIABLES
    settings,          \* in-memory settings dict
    settingsFile,      \* settings.json: [exists, text]
    settingsLock,      \* _settings_lock: "free" or the thread holding it
    upPc,              \* set_thermal_settings calls: "idle", "mutated", "saving", "returned"
    upArg,             \* payload.thermal_threshold_c of each call
    persisted,         \* history: the settings of the last completed write of settings.json
    lastReload,        \* history: what the last restart found and loaded (None before one)
    lastSet,           \* history: the call and value of the last settings[...] = x of this
                       \* run, and whether another call was then between its assignment and its save
    latest_frame,      \* None or the last applied thermal object
    latest_torque,     \* None or the last published torque packet
    frame_history,     \* deque(maxlen = FRAME_HISTORY_SIZE)
    error_log,         \* in-memory event list
    last_error_time,   \* dict: dedup key -> time of the last recorded alert
    eventsFile,        \* events.log, one event per line
    sink,              \* the Sink of run_thermal_server
    now,               \* time.time()
    mode,              \* which producers feed this run
    thPc,              \* thermal listener: "accept", "recv", "split", "settings", "eval", "write"
    thBuf,             \* buf: the bytes received and not yet split off
    thObj,             \* the object being processed (None between lines)
    thThr,             \* the settings read under the lock for this frame
    thEvent,           \* the event appended to error_log and not yet written
    nThermal,          \* lines (bytes, in a "chunk" run) delivered on the thermal stream
    tqPc,              \* torque listener: "accept", "recv", "split", "joints", "write", "publish", "dead"
    tqBuf,             \* buf: the bytes received and not yet split off
    tqPkt,             \* the packet being processed (None between lines)
    tqJ,               \* next joint of the enumerate loop (1-based)
    tqEvent,           \* the event appended to error_log, not yet written nor stamped
    tqExit,            \* why the torque thread ended: "none", "decode", "transport"
    nTorque,           \* lines (bytes, in a "chunk" run) delivered on the torque stream
    wsSent,            \* per websocket loop: passes made, snapshots transmitted
    scale,             \* inputs and results of the scale comparison
    candidates,        \* history: per key, every candidate alert, its time and outcome
    arrivals,          \* history: the well-formed thermal frames split off, in order
    torque_arrivals    \* history: the torque packets decoded and evaluated, in order

settingsVars == <<settings, settingsFile, settingsLock, upPc, upArg, persisted, lastReload,
                  lastSet>>
sharedVars == <<latest_frame, latest_torque, frame_history, error_log, last_error_time,
                eventsFile, sink>>
thermalVars == <<thPc, thBuf, thObj, thThr, thEvent, nThermal>>
torqueVars == <<tqPc, tqBuf, tqPkt, tqJ, tqEvent, tqExit, nTorque>>
historyVars == <<candidates, arrivals, torque_arrivals>>
vars == <<settingsVars, sharedVars, thermalVars, torqueVars, historyVars,
          now, mode, wsSent, scale>>

\* What the producers send in each specification.
\* In a "history" run the n-th frame sent carries frame number n.
ThermalOffer(m, n) ==
    CASE m = "system" -> {Frame(3200, 1)}
      [] m = "dedup" -> {Frame(3200, 1)}
      [] m = "history" -> {Frame(2900, n)}
      [] m = "scale" -> {Frame(scale.c, 1), Frame(scale.c + 27315, 1)}
      [] m = "subscriber" -> {Frame(2900, n)}
      [] OTHER -> ThermalLines
TorqueOffer(m, n) ==
    CASE m = "system" -> {Packet(<<150, 100>>, 1)}
      [] m = "dedup" -> {Packet(<<150, 180>>, 1)}
      [] m = "subscriber" -> {Packet(<<150, 100>>, n)}
      [] OTHER -> TorqueLines
ThermalBudget(m) ==
    CASE m = "system" -> MaxSystemLines
      [] m = "dedup" -> MaxDedupThermal
      [] m = "history" -> MaxHistoryFrames
      [] m = "scale" -> MaxScaleFrames
      [] m = "subscriber" -> MaxSubscriberLines
      [] m = "chunk" -> Len(ThermalStream)
      [] OTHER -> MaxThermalLines
TorqueBudget(m) ==
    CASE m = "system" -> MaxSystemLines
      [] m = "dedup" -> MaxDedupTorque
      [] m = "subscriber" -> MaxSubscriberLines
      [] m = "chunk" -> Len(TorqueStream)
      [] OTHER -> MaxTorqueLines

\* What one recv can return after n bytes of a "chunk" run: the next 1 to
\* MaxChunk bytes of the connection, cut anywhere.
Cuts(stream, n) ==
    { [bytes |-> SubSeq(stream, n + 1, n + k), adv |-> k] :
        k \in { k \in 1..MaxChunk :
                  /\ n + k <= Len(stream)
                  /\ \A i \in (n + 1)..(n + k) : stream[i].b # "eof" } }

\* What one recv can return: in a "chunk" run a cut of the stream, in every
\* other run one whole line and its line feed.
ThermalChunks(m, n) ==
    IF m = "chunk" THEN Cuts(ThermalStream, n)
    ELSE { [bytes |-> <<Whole(l), LF>>, adv |-> 1] : l \in ThermalOffer(m, n + 1) }
TorqueChunks(m, n) ==
    IF m = "chunk" THEN Cuts(TorqueStream, n)
    ELSE { [bytes |-> <<Whole(l), LF>>, adv |-> 1] : l \in TorqueOffer(m, n + 1) }

\* Whether the producer closes the connection after n bytes or lines: in a
\* "chunk" run where the stream says so, in every other run at any time.
Closes(m, stream, n) ==
    m = "chunk" => (n < Len(stream) /\ stream[n + 1].b = "eof")
\* A close in a "chunk" run moves on to the bytes of the next connection.
AfterClose(m, n) == IF m = "chunk" THEN n + 1 ELSE n

\* How many passes of each websocket loop a run follows.
WsBudget(m) ==
    CASE m = "subscriber" -> MaxSends
      [] OTHER -> MaxSystemSends

\* ------------------------------------------------------------ unit handling
is_kelvin_value_AtLimit(t) == t >= KELVIN_LIMIT

is_kelvin_value(t) == t > KELVIN_LIMIT

thr_in_same_unit_NoConversion(sample_t, thr_c) == thr_c

thr_in_same_unit(sample_t, thr_c) ==
    IF is_kelvin_value(sample_t) THEN thr_c + KELVIN_OFFSET ELSE thr_c

\* ------------------------------------------------------------ Sink
EmptySink ==
    [timestamps |-> <<>>, mins |-> <<>>, maxs |-> <<>>, means |-> <<>>,
     image_paths |-> <<>>, frame_nos |-> <<>>]

\* Sink.add: six appends in order; the first one that raises stops the rest.
\* obj["x"] raises on an absent key, float()/int() on a non-numeric value;
\* obj.get("image_path") never raises, obj.get("frame_no", -1) defaults to -1.
SinkAdd(s, obj) ==
    IF obj.kind # "json" \/ obj.timestamp.t = "absent" THEN [sink |-> s, ok |-> FALSE]
    ELSE LET s1 == [s EXCEPT !.timestamps = Append(@, obj.timestamp)] IN
    IF ~IsNumeric(obj.t_min) THEN [sink |-> s1, ok |-> FALSE]
    ELSE LET s2 == [s1 EXCEPT !.mins = Append(@, obj.t_min.v)] IN
    IF ~IsNumeric(obj.t_max) THEN [sink |-> s2, ok |-> FALSE]
    ELSE LET s3 == [s2 EXCEPT !.maxs = Append(@, obj.t_max.v)] IN
    IF ~IsNumeric(obj.t_mean) THEN [sink |-> s3, ok |-> FALSE]
    ELSE LET s4 == [s3 EXCEPT !.means = Append(@, obj.t_mean.v),
                              !.image_paths = Append(@, None)] IN
    IF obj.frame_no.t = "str" THEN [sink |-> s4, ok |-> FALSE]
    ELSE [sink |-> [s4 EXCEPT !.frame_nos =
                        Append(@, IF obj.frame_no.t = "absent" THEN -1 ELSE obj.frame_no.v)],
          ok |-> TRUE]

DequeAppend_DropsNewest(h, x) ==
    IF Len(h) >= FRAME_HISTORY_SIZE
    THEN Append(SubSeq(h, 1, Len(h) - 1), x)
    ELSE Append(h, x)

\* deque.append with maxlen: a full deque drops its oldest element.
DequeAppend(h, x) ==
    IF Len(h) >= FRAME_HISTORY_SIZE THEN Append(Tail(h), x) ELSE Append(h, x)

\* ------------------------------------------------------------ deduplication
ShouldEmit_AtCooldown(key, t) ==
    key \notin DOMAIN last_error_time \/ t - last_error_time[key] >= ERROR_COOLDOWN

ShouldEmit(key, t) ==
    key \notin DOMAIN last_error_time \/ t - last_error_time[key] > ERROR_COOLDOWN

\* The history of candidate alerts, per key, extended by one candidate.
Noted(key, t, rec) ==
    [k \in DOMAIN candidates \cup {key} |->
        IF k = key
        THEN Append(IF k \in DOMAIN candidates THEN candidates[k] ELSE <<>>,
                    [at |-> t, recorded |-> rec])
        ELSE candidates[k]]

Stamp(key, t) ==
    [k \in DOMAIN last_error_time \cup {key} |-> IF k = key THEN t ELSE last_error_time[k]]

StampIf_Always(emit, key, t) == Stamp(key, t)

\* The dedup map after a candidate alert: stamped when the alert is recorded,
\* untouched when it is suppressed.
StampIf(emit, key, t) == IF emit THEN Stamp(key, t) ELSE last_error_time

\* ------------------------------------------------------------ threshold evaluation
ThermalAlerts_Strict(t_max, thr_raw) == t_max > thr_raw

ThermalAlerts(t_max, thr_raw) == t_max >= thr_raw

ThermalSeverity(t_max, warn_raw, crit_raw) ==
    IF t_max > crit_raw THEN "CRITICAL"
    ELSE IF t_max > warn_raw THEN "WARNING"
    ELSE "INFO"

\* The event detection of handle_thermal_client on one t_max under the
\* settings cfg: whether the frame alerts, and the severity of its event.
ThermalDecision(t_max, cfg) ==
    LET thr_raw == thr_in_same_unit(t_max, cfg.thermal_threshold_c)
        warn_raw == thr_in_same_unit(t_max, cfg.thermal_warning_c)
        crit_raw == thr_in_same_unit(t_max, cfg.thermal_critical_c)
        alert == ThermalAlerts(t_max, thr_raw)
    IN [alert |-> alert,
        severity |-> IF alert THEN ThermalSeverity(t_max, warn_raw, crit_raw) ELSE "none"]

TorqueSeverity_WarningAtHalf(d) ==
    IF d > 60 THEN "CRITICAL"
    ELSE IF d > 50 THEN "WARNING"
    ELSE "INFO"

TorqueSeverity(d) ==
    IF d > 60 THEN "CRITICAL"
    ELSE IF d > 30 THEN "WARNING"
    ELSE "INFO"

Abs(x) == IF x < 0 THEN -x ELSE x
MinOf(a, b) == IF a < b THEN a ELSE b

\* detect_torque_anomaly: zip stops at the shorter list; abs(a - i) raises on a
\* non-numeric element.
detect_torque_anomaly(actual, ideal) ==
    LET n == MinOf(Len(actual), Len(ideal))
        ok == \A j \in 1..n : IsNumeric(actual[j]) /\ IsNumeric(ideal[j])
        diffs == [j \in 1..n |-> IF ok THEN Abs(actual[j].v - ideal[j].v) ELSE 0]
    IN [ok |-> ok, diffs |-> diffs,
        flags |-> [j \in 1..n |-> diffs[j] > TORQUE_THRESHOLD]]

\* ------------------------------------------------------------ locks
\* The lock the code takes around each module-level structure: _settings_lock
\* around settings, none around the others.
LockScopedTo(structure) ==
    IF structure = "settings" THEN "_settings_lock" ELSE "none"

\* ------------------------------------------------------------ thermal listener
\* A thermal line that json.loads and Sink.add accept on their own.
IsValidFrame(line) ==
    /\ line.kind = "json"
    /\ line.timestamp.t # "absent"
    /\ line.t_min.t = "num" /\ line.t_max.t = "num" /\ line.t_mean.t = "num"
    /\ line.frame_no.t # "str"

Received_Replaces(buf, chunk) == chunk

\* buf += chunk
Received(buf, chunk) == buf \o chunk

\* b"\n" in buf
HasLine(buf) == \E i \in 1..Len(buf) : buf[i].b = "lf"

LastFeed(buf) == CHOOSE i \in 1..Len(buf) :
                    buf[i].b = "lf" /\ \A j \in (i + 1)..Len(buf) : buf[j].b # "lf"

SplitLine_FromEnd(buf) ==
    LET p == LastFeed(buf)
        q == IF HasLine(SubSeq(buf, 1, p - 1)) THEN LastFeed(SubSeq(buf, 1, p - 1)) ELSE 0
    IN [line |-> SubSeq(buf, q + 1, p - 1),
        rest |-> SubSeq(buf, 1, q) \o SubSeq(buf, p + 1, Len(buf))]

\* line, buf = buf.split(b"\n", 1): the bytes before the first line feed, and
\* the bytes after it.
SplitLine(buf) ==
    LET p == CHOOSE i \in 1..Len(buf) :
                 buf[i].b = "lf" /\ \A j \in 1..(i - 1) : buf[j].b # "lf"
    IN [line |-> SubSeq(buf, 1, p - 1), rest |-> SubSeq(buf, p + 1, Len(buf))]

\* line.strip() and json.loads(line.decode("utf-8")): no bytes make a blank
\* line; the whole text of a line, or its two parts in order, make that
\* line; anything else is not JSON.
DecodeLine(text, blank, garbage) ==
    IF text = <<>> THEN blank
    ELSE IF Len(text) = 1 /\ text[1].b = "whole" THEN text[1].line
    ELSE IF /\ Len(text) = 2
            /\ text[1].b = "first" /\ text[2].b = "second"
            /\ text[1].line = text[2].line
         THEN text[1].line
    ELSE garbage

\* Where the thread goes after a line: back to the split loop, or to recv.
AfterLine(buf) == IF HasLine(buf) THEN "split" ELSE "recv"

\* run_thermal_server: srv.accept() returns; handle_thermal_client starts with buf = b"".
ThermalAccept ==
    /\ thPc = "accept"
    /\ thPc' = "recv"
    /\ thBuf' = <<>>
    /\ UNCHANGED <<thObj, thThr, thEvent, nThermal>>
    /\ UNCHANGED <<settingsVars, sharedVars, torqueVars, historyVars, now, mode, wsSent, scale>>

\* conn.recv returns a chunk: buf += chunk, then the split loop if buf holds
\* a line feed, else recv again.
ThermalRecvChunk ==
    /\ thPc = "recv"
    /\ nThermal < ThermalBudget(mode)
    /\ \E c \in ThermalChunks(mode, nThermal) :
          /\ thBuf' = Received(thBuf, c.bytes)
          /\ thPc' = AfterLine(Received(thBuf, c.bytes))
          /\ nThermal' = nThermal + c.adv
    /\ UNCHANGED <<thObj, thThr, thEvent>>
    /\ UNCHANGED <<settingsVars, sharedVars, torqueVars, historyVars, now, mode, wsSent, scale>>

ThermalRecvEOF_Clears ==
    /\ thPc = "recv"
    /\ Closes(mode, ThermalStream, nThermal)
    /\ thPc' = "accept"
    /\ thBuf' = <<>>
    /\ nThermal' = AfterClose(mode, nThermal)
    /\ latest_frame' = None
    /\ UNCHANGED <<thObj, thThr, thEvent>>
    /\ UNCHANGED <<latest_torque, frame_history, error_log, last_error_time, eventsFile, sink>>
    /\ UNCHANGED <<settingsVars, torqueVars, historyVars, now, mode, wsSent, scale>>

\* conn.recv returns b"": break, the with block closes conn, back to accept.
ThermalRecvEOF ==
    /\ thPc = "recv"
    /\ Closes(mode, ThermalStream, nThermal)
    /\ thPc' = "accept"
    /\ thBuf' = <<>>
    /\ nThermal' = AfterClose(mode, nThermal)
    /\ UNCHANGED <<thObj, thThr, thEvent>>
    /\ UNCHANGED <<settingsVars, sharedVars, torqueVars, historyVars, now, mode, wsSent, scale>>

\* conn.recv raises: the exception leaves handle_thermal_client and is caught
\* by run_thermal_server, which closes conn and accepts again.
ThermalRecvError ==
    /\ thPc = "recv"
    /\ thPc' = "accept"
    /\ thBuf' = <<>>
    /\ UNCHANGED <<thObj, thThr, thEvent, nThermal>>
    /\ UNCHANGED <<settingsVars, sharedVars, torqueVars, historyVars, now, mode, wsSent, scale>>

\* One pass of "while b'\n' in buf": split a line off, skip it when blank,
\* else json.loads, sink.add, latest_frame, frame_history, i, t_max.
\* Any exception goes to the handler, which prints and continues the loop.
ThermalLine ==
    /\ thPc = "split"
    /\ HasLine(thBuf)
    /\ LET line == DecodeLine(SplitLine(thBuf).line, BlankThermal, GarbageThermal)
           rest == SplitLine(thBuf).rest
           added == SinkAdd(sink, line)
           i == Len(added.sink.mins)
       IN /\ thBuf' = rest
          /\ arrivals' = IF IsValidFrame(line) THEN Append(arrivals, line) ELSE arrivals
          /\ IF line.kind # "json"
             THEN /\ thPc' = AfterLine(rest)
                  /\ UNCHANGED <<sink, latest_frame, frame_history, thObj>>
             ELSE /\ sink' = added.sink
                  /\ IF ~added.ok
                     THEN /\ thPc' = AfterLine(rest)
                          /\ UNCHANGED <<latest_frame, frame_history, thObj>>
                     ELSE /\ latest_frame' = Some(line)
                          /\ frame_history' = DequeAppend(frame_history, line)
                          /\ IF i > Len(added.sink.maxs)
                             THEN /\ thPc' = AfterLine(rest)
                                  /\ UNCHANGED thObj
                             ELSE /\ thPc' = "settings"
                                  /\ thObj' = Some(line)
    /\ UNCHANGED <<thThr, thEvent, nThermal, candidates, torque_arrivals>>
    /\ UNCHANGED <<latest_torque, error_log, last_error_time, eventsFile>>
    /\ UNCHANGED <<settingsVars, torqueVars, now, mode, wsSent, scale>>

\* with _settings_lock: read the three thresholds.
ThermalReadSettings ==
    /\ thPc = "settings"
    /\ settingsLock = "free"
    /\ thThr' = Some(settings)
    /\ thPc' = "eval"
    /\ UNCHANGED <<thBuf, thObj, thEvent, nThermal>>
    /\ UNCHANGED <<settingsVars, sharedVars, torqueVars, historyVars, now, mode, wsSent, scale>>

\* Normalise the thresholds, print the live line (which indexes frame_nos[i]
\* and raises when the Sink lists are out of step), then detect the event:
\* a frame at or above the threshold is a candidate alert, recorded when
\* ShouldEmit.
ThermalEvaluate ==
    /\ thPc = "eval"
    /\ LET i == Len(sink.mins)
           t_max == sink.maxs[i]
           thr_c == thThr[1].thermal_threshold_c
           thr_raw == thr_in_same_unit(t_max, thr_c)
           dec == ThermalDecision(t_max, thThr[1])
           t_max_c == IF is_kelvin_value(t_max) THEN t_max - KELVIN_OFFSET ELSE t_max
       IN IF i > Len(sink.frame_nos) \/ ~dec.alert
          THEN /\ thPc' = AfterLine(thBuf)
               /\ thEvent' = None
               /\ UNCHANGED <<error_log, last_error_time, candidates>>
          ELSE LET key == <<"THERMAL", sink.frame_nos[i]>>
                   emit == ShouldEmit(key, now)
                   event == [timestamp |-> thObj[1].timestamp,
                             type |-> "THERMAL",
                             severity |-> dec.severity,
                             message |-> "High temperature detected",
                             meta |-> [t_max |-> t_max, t_max_c |-> t_max_c,
                                       threshold |-> thr_raw, threshold_c |-> thr_c,
                                       frame_no |-> sink.frame_nos[i]]]
               IN /\ candidates' = Noted(key, now, emit)
                  /\ last_error_time' = StampIf(emit, key, now)
                  /\ IF emit
                     THEN /\ error_log' = Append(error_log, event)
                          /\ thEvent' = Some(event)
                          /\ thPc' = "write"
                     ELSE /\ thPc' = AfterLine(thBuf)
                          /\ thEvent' = None
                          /\ UNCHANGED error_log
    /\ thObj' = None
    /\ thThr' = None
    /\ UNCHANGED <<thBuf, nThermal, arrivals, torque_arrivals>>
    /\ UNCHANGED <<latest_frame, latest_torque, frame_history, eventsFile, sink>>
    /\ UNCHANGED <<settingsVars, torqueVars, now, mode, wsSent, scale>>

\* open(EVENTS_LOG_FILE, "a"); f.write(json.dumps(event) + "\n")
ThermalWriteEvent ==
    /\ thPc = "write"
    /\ eventsFile' = Append(eventsFile, thEvent[1])
    /\ thEvent' = None
    /\ thPc' = AfterLine(thBuf)
    /\ UNCHANGED <<thBuf, thObj, thThr, nThermal>>
    /\ UNCHANGED <<latest_frame, latest_torque, frame_history, error_log, last_error_time, sink>>
    /\ UNCHANGED <<settingsVars, torqueVars, historyVars, now, mode, wsSent, scale>>

\* ------------------------------------------------------------ torque listener
\* run_torque_server: srv.accept() returns, buf = b"".
TorqueAccept ==
    /\ tqPc = "accept"
    /\ tqPc' = "recv"
    /\ tqBuf' = <<>>
    /\ UNCHANGED <<tqPkt, tqJ, tqEvent, tqExit, nTorque>>
    /\ UNCHANGED <<settingsVars, sharedVars, thermalVars, historyVars, now, mode, wsSent, scale>>

\* conn.recv returns a chunk: buf += chunk, then the split loop if buf holds
\* a line feed, else recv again.
TorqueRecvChunk ==
    /\ tqPc = "recv"
    /\ nTorque < TorqueBudget(mode)
    /\ \E c \in TorqueChunks(mode, nTorque) :
          /\ tqBuf' = Received(tqBuf, c.bytes)
          /\ tqPc' = AfterLine(Received(tqBuf, c.bytes))
          /\ nTorque' = nTorque + c.adv
    /\ UNCHANGED <<tqPkt, tqJ, tqEvent, tqExit>>
    /\ UNCHANGED <<settingsVars, sharedVars, thermalVars, historyVars, now, mode, wsSent, scale>>

\* conn.recv returns b"": break, the with block closes conn, the outer loop accepts.
TorqueRecvEOF ==
    /\ tqPc = "recv"
    /\ Closes(mode, TorqueStream, nTorque)
    /\ tqPc' = "accept"
    /\ tqBuf' = <<>>
    /\ nTorque' = AfterClose(mode, nTorque)
    /\ UNCHANGED <<tqPkt, tqJ, tqEvent, tqExit>>
    /\ UNCHANGED <<settingsVars, sharedVars, thermalVars, historyVars, now, mode, wsSent, scale>>

\* conn.recv raises: nothing in run_torque_server catches it, the thread ends.
TorqueRecvError ==
    /\ tqPc = "recv"
    /\ tqPc' = "dead"
    /\ tqExit' = "transport"
    /\ UNCHANGED <<tqBuf, tqPkt, tqJ, tqEvent, nTorque>>
    /\ UNCHANGED <<settingsVars, sharedVars, thermalVars, historyVars, now, mode, wsSent, scale>>

\* One pass of "while b'\n' in buf": split a line off, skip it when blank, else
\* json.loads and detect_torque_anomaly.  No handler: an exception ends the thread.
TorqueLine ==
    /\ tqPc = "split"
    /\ HasLine(tqBuf)
    /\ LET line == DecodeLine(SplitLine(tqBuf).line, BlankTorque, GarbageTorque)
           rest == SplitLine(tqBuf).rest
           det == detect_torque_anomaly(line.torque_actual.v, line.torque_ideal.v)
           raises == \/ line.kind = "garbage"
                     \/ line.torque_actual.t = "absent"
                     \/ line.torque_ideal.t = "absent"
                     \/ ~det.ok
           anomaly == \E j \in DOMAIN det.flags : det.flags[j]
           pkt == [timestamp |-> line.timestamp,
                   frame_no |-> line.frame_no,
                   torque_actual |-> line.torque_actual.v,
                   torque_ideal |-> line.torque_ideal.v,
                   diffs |-> det.diffs,
                   anomaly |-> anomaly]
       IN /\ tqBuf' = rest
          /\ IF line.kind = "blank"
             THEN /\ tqPc' = AfterLine(rest)
                  /\ UNCHANGED <<tqPkt, tqExit, torque_arrivals>>
             ELSE IF raises
             THEN /\ tqPc' = "dead"
                  /\ tqExit' = "decode"
                  /\ UNCHANGED <<tqPkt, torque_arrivals>>
             ELSE /\ tqPkt' = Some(pkt)
                  /\ torque_arrivals' = Append(torque_arrivals, pkt)
                  /\ tqPc' = IF anomaly THEN "joints" ELSE "publish"
                  /\ UNCHANGED tqExit
    /\ tqJ' = 1
    /\ UNCHANGED <<tqEvent, nTorque, candidates, arrivals>>
    /\ UNCHANGED <<settingsVars, sharedVars, thermalVars, now, mode, wsSent, scale>>

TorqueKey_Shared(j) == <<"TORQUE", 1>>

\* key = ("TORQUE", j + 1): joints are numbered from 1, one key per joint.
TorqueKey(j) == <<"TORQUE", j>>

\* The enumerate loop up to the next joint over the threshold: that joint is
\* a candidate alert under its own key; when ShouldEmit, the event is built
\* (pkt["timestamp"] and pkt["frame_no"] raise when absent) and appended.
TorqueJoint ==
    /\ tqPc = "joints"
    /\ LET d == tqPkt[1].diffs
           alerting == {j \in tqJ..Len(d) : d[j] > TORQUE_THRESHOLD}
       IN IF alerting = {}
          THEN /\ tqPc' = "publish"
               /\ tqJ' = 1
               /\ UNCHANGED <<tqEvent, tqExit, error_log, candidates>>
          ELSE LET j == CHOOSE x \in alerting : \A y \in alerting : x <= y
                   key == TorqueKey(j)
                   emit == ShouldEmit(key, now)
                   event == [timestamp |-> tqPkt[1].timestamp,
                             type |-> "TORQUE",
                             severity |-> TorqueSeverity(d[j]),
                             message |-> <<"Joint", j, "torque exceeded threshold">>,
                             meta |-> [joint |-> j, diff |-> d[j],
                                       threshold |-> TORQUE_THRESHOLD,
                                       frame_no |-> tqPkt[1].frame_no]]
               IN IF ~emit
                  THEN /\ candidates' = Noted(key, now, FALSE)
                       /\ tqJ' = j + 1
                       /\ UNCHANGED <<tqPc, tqEvent, tqExit, error_log>>
                  ELSE IF tqPkt[1].timestamp.t = "absent" \/ tqPkt[1].frame_no.t = "absent"
                  THEN /\ tqPc' = "dead"
                       /\ tqExit' = "decode"
                       /\ UNCHANGED <<tqJ, tqEvent, error_log, candidates>>
                  ELSE /\ candidates' = Noted(key, now, TRUE)
                       /\ error_log' = Append(error_log, event)
                       /\ tqEvent' = Some([event |-> event, key |-> key, at |-> now])
                       /\ tqJ' = j
                       /\ tqPc' = "write"
                       /\ UNCHANGED tqExit
    /\ UNCHANGED <<tqBuf, tqPkt, nTorque, arrivals, torque_arrivals>>
    /\ UNCHANGED <<latest_frame, latest_torque, frame_history, last_error_time, eventsFile, sink>>
    /\ UNCHANGED <<settingsVars, thermalVars, now, mode, wsSent, scale>>

\* The event is written to events.log, then last_error_time[key] = now.
TorqueWriteEvent ==
    /\ tqPc = "write"
    /\ eventsFile' = Append(eventsFile, tqEvent[1].event)
    /\ last_error_time' = Stamp(tqEvent[1].key, tqEvent[1].at)
    /\ tqEvent' = None
    /\ tqJ' = tqJ + 1
    /\ tqPc' = "joints"
    /\ UNCHANGED <<tqBuf, tqPkt, tqExit, nTorque>>
    /\ UNCHANGED <<latest_frame, latest_torque, frame_history, error_log, sink>>
    /\ UNCHANGED <<settingsVars, thermalVars, historyVars, now, mode, wsSent, scale>>

\* latest_torque = pkt, then the print, which raises when frame_no is absent.
TorquePublish ==
    /\ tqPc = "publish"
    /\ latest_torque' = Some(tqPkt[1])
    /\ tqPkt' = None
    /\ IF tqPkt[1].frame_no.t = "absent"
       THEN /\ tqPc' = "dead"
            /\ tqExit' = "decode"
       ELSE /\ tqPc' = AfterLine(tqBuf)
            /\ UNCHANGED tqExit
    /\ UNCHANGED <<tqBuf, tqJ, tqEvent, nTorque>>
    /\ UNCHANGED <<latest_frame, frame_history, error_log, last_error_time, eventsFile, sink>>
    /\ UNCHANGED <<settingsVars, thermalVars, historyVars, now, mode, wsSent, scale>>

\* ------------------------------------------------------------ settings.json
\* The text of settings.json is a sequence of tokens: braces, colons, commas,
\* key names, and the characters of each number.
DigitChars == <<"0", "1", "2", "3", "4", "5", "6", "7", "8", "9">>
IsDigit(c) == \E d \in 1..10 : DigitChars[d] = c
DigitVal(c) == (CHOOSE d \in 1..10 : DigitChars[d] = c) - 1

RECURSIVE Digits(_)
Digits(n) ==
    IF n < 10 THEN <<DigitChars[n + 1]>>
    ELSE Append(Digits(n \div 10), DigitChars[(n % 10) + 1])

\* repr of a float with at most two decimals: 30.0, 28.5, 30.25, -5.0.
FormatFloat_Truncated(v) ==
    (IF v < 0 THEN <<"-">> ELSE <<>>) \o Digits(Abs(v) \div 100) \o <<".", "0">>

FormatFloat(v) ==
    LET a == Abs(v)
        frac == a % 100
    IN (IF v < 0 THEN <<"-">> ELSE <<>>) \o Digits(a \div 100) \o <<".">> \o
       (IF frac % 10 = 0
        THEN <<DigitChars[(frac \div 10) + 1]>>
        ELSE <<DigitChars[(frac \div 10) + 1], DigitChars[(frac % 10) + 1]>>)

\* json.dump(settings, f): the whole dict, keys in insertion order.
JsonDump(d) ==
    <<"{", "thermal_threshold_c", ":">> \o FormatFloat(d.thermal_threshold_c) \o
    <<",", "thermal_warning_c", ":">> \o FormatFloat(d.thermal_warning_c) \o
    <<",", "thermal_critical_c", ":">> \o FormatFloat(d.thermal_critical_c) \o
    <<"}">>

\* The first index at or after i that holds no digit.
RECURSIVE DigitRunEnd(_, _)
DigitRunEnd(text, i) ==
    IF i <= Len(text) /\ IsDigit(text[i]) THEN DigitRunEnd(text, i + 1) ELSE i

\* The value of the digits text[i..j-1].
RECURSIVE DigitsValue(_, _, _)
DigitsValue(text, i, j) ==
    IF j <= i THEN 0 ELSE DigitsValue(text, i, j - 1) * 10 + DigitVal(text[j - 1])

\* A JSON number at index i, in hundredths: sign, digits, optional fraction.
ParseNumber(text, i) ==
    LET neg == i <= Len(text) /\ text[i] = "-"
        a == IF neg THEN i + 1 ELSE i
        b == DigitRunEnd(text, a)
        hasFrac == b <= Len(text) /\ text[b] = "."
        c == IF hasFrac THEN DigitRunEnd(text, b + 1) ELSE b
        nfrac == c - (b + 1)
        fracv == IF ~hasFrac THEN 0
                 ELSE IF nfrac = 1 THEN DigitVal(text[b + 1]) * 10
                 ELSE DigitsValue(text, b + 1, c)
        mag == DigitsValue(text, a, b) * 100 + fracv
    IN [ok |-> b > a /\ (hasFrac => nfrac \in {1, 2}),
        v |-> IF neg THEN -mag ELSE mag,
        next |-> c]

\* The members of a JSON object from index i: key : number, then "," or the
\* closing brace, which must end the text.
RECURSIVE ParseMembers(_, _, _)
ParseMembers(text, i, acc) ==
    IF i + 2 > Len(text) \/ text[i + 1] # ":" THEN [ok |-> FALSE, data |-> {}]
    ELSE LET num == ParseNumber(text, i + 2)
             j == num.next
             got == {p \in acc : p[1] # text[i]} \cup {<<text[i], num.v>>}
         IN IF ~num.ok \/ j > Len(text) THEN [ok |-> FALSE, data |-> {}]
            ELSE IF text[j] = "}" THEN [ok |-> j = Len(text), data |-> got]
            ELSE IF text[j] = "," THEN ParseMembers(text, j + 1, got)
            ELSE [ok |-> FALSE, data |-> {}]

\* json.load: raises on anything but a complete object.
JsonLoad(text) ==
    IF Len(text) < 2 \/ text[1] # "{" THEN [ok |-> FALSE, data |-> {}]
    ELSE IF text = <<"{", "}">> THEN [ok |-> TRUE, data |-> {}]
    ELSE ParseMembers(text, 2, {})

\* load_settings: defaults overlaid with the known keys of the file; defaults
\* when the file does not parse; defaults written out when there is no file.
load_settings(file) ==
    IF ~file.exists
    THEN [settings |-> DEFAULT_SETTINGS,
          file |-> [exists |-> TRUE, text |-> JsonDump(DEFAULT_SETTINGS)]]
    ELSE LET r == JsonLoad(file.text)
             Get(k) == IF \E p \in r.data : p[1] = k
                       THEN (CHOOSE p \in r.data : p[1] = k)[2]
                       ELSE DEFAULT_SETTINGS[k]
         IN [settings |-> IF r.ok
                          THEN [thermal_threshold_c |-> Get("thermal_threshold_c"),
                                thermal_warning_c |-> Get("thermal_warning_c"),
                                thermal_critical_c |-> Get("thermal_critical_c")]
                          ELSE DEFAULT_SETTINGS,
             file |-> file]

\* A websocket loop that has made no pass yet.
NoPasses == [passes |-> 0, sent |-> <<>>]

\* ------------------------------------------------------------ settings API
\* set_thermal_settings, first half: with _settings_lock: settings[...] = x.
SetMutate(u, x) ==
    /\ upPc[u] \in {"idle", "returned"}
    /\ settingsLock = "free"
    /\ settings' = [settings EXCEPT !.thermal_threshold_c = x]
    /\ upArg' = [upArg EXCEPT ![u] = x]
    /\ upPc' = [upPc EXCEPT ![u] = "mutated"]
    /\ lastSet' = Some([by |-> u, x |-> x,
                         overlapped |-> \E w \in Updaters \ {u} : upPc[w] = "mutated"])
    /\ UNCHANGED <<settingsFile, settingsLock, persisted, lastReload>>
    /\ UNCHANGED <<sharedVars, thermalVars, torqueVars, historyVars, now, mode, wsSent, scale>>

\* save_settings: take the lock, open(SETTINGS_FILE, "w") truncates the file.
SaveOpen(u) ==
    /\ upPc[u] = "mutated"
    /\ settingsLock = "free"
    /\ settingsLock' = u
    /\ settingsFile' = [exists |-> TRUE, text |-> <<>>]
    /\ upPc' = [upPc EXCEPT ![u] = "saving"]
    /\ UNCHANGED <<settings, upArg, persisted, lastReload, lastSet>>
    /\ UNCHANGED <<sharedVars, thermalVars, torqueVars, historyVars, now, mode, wsSent, scale>>

\* What the save_settings of call u serialises: the module-level settings
\* dict as it is at the dump, whatever the payload of the call was.
Dumped_OwnPayload(u) == [settings EXCEPT !.thermal_threshold_c = upArg[u]]

Dumped(u) == settings

\* save_settings: json.dump, the file is closed, the lock released; the call returns.
SaveDump(u) ==
    /\ upPc[u] = "saving"
    /\ settingsLock = u
    /\ settingsFile' = [exists |-> TRUE, text |-> JsonDump(Dumped(u))]
    /\ persisted' = Dumped(u)
    /\ settingsLock' = "free"
    /\ upPc' = [upPc EXCEPT ![u] = "returned"]
    /\ UNCHANGED <<settings, upArg, lastReload, lastSet>>
    /\ UNCHANGED <<sharedVars, thermalVars, torqueVars, historyVars, now, mode, wsSent, scale>>

\* The process is killed at any point and started again: the module-level
\* state is built anew, load_settings reads settings.json, events.log is read
\* back into error_log.
Restart ==
    /\ LET ld == load_settings(settingsFile)
       IN /\ settings' = ld.settings
          /\ settingsFile' = ld.file
          /\ lastReload' = Some([quiescent |-> \A u \in Updaters : upPc[u] \in {"idle", "returned"},
                                 set |-> {upArg[u] : u \in {w \in Updaters : upPc[w] = "returned"}}
                                            \cap {settings.thermal_threshold_c},
                                 before |-> settings,
                                 durable |-> persisted,
                                 after |-> ld.settings])
    /\ settingsLock' = "free"
    /\ upPc' = [u \in Updaters |-> "idle"]
    /\ upArg' = [u \in Updaters |-> 0]
    /\ lastSet' = None
    /\ latest_frame' = None
    /\ latest_torque' = None
    /\ frame_history' = <<>>
    /\ error_log' = eventsFile
    /\ last_error_time' = [k \in {} |-> 0]
    /\ sink' = EmptySink
    /\ thPc' = "accept" /\ thBuf' = <<>> /\ thObj' = None /\ thThr' = None /\ thEvent' = None
    /\ tqPc' = "accept" /\ tqBuf' = <<>> /\ tqPkt' = None /\ tqJ' = 1 /\ tqEvent' = None
    /\ tqExit' = "none"
    /\ wsSent' = [thermal |-> NoPasses, torque |-> NoPasses]
    /\ candidates' = [k \in {} |-> <<>>]
    /\ arrivals' = <<>>
    /\ torque_arrivals' = <<>>
    /\ UNCHANGED <<persisted, eventsFile, nThermal, nTorque, now, mode, scale>>

\* ------------------------------------------------------------ websocket loops
\* One pass of a websocket loop over the slot it publishes: send_json(latest)
\* when the slot is not None, nothing otherwise; then the sleep.
WsPass(w, latest) ==
    [passes |-> w.passes + 1,
     sent |-> IF latest = None THEN w.sent ELSE Append(w.sent, latest[1])]

WsThermalSend_Oldest ==
    /\ wsSent.thermal.passes < WsBudget(mode)
    /\ wsSent' = [wsSent EXCEPT !.thermal =
                      WsPass(@, IF frame_history = <<>> THEN None
                                ELSE Some(frame_history[1]))]
    /\ UNCHANGED <<settingsVars, sharedVars, thermalVars, torqueVars, historyVars,
                   now, mode, scale>>

\* websocket_thermal: one pass of the while-True loop.
WsThermalSend ==
    /\ wsSent.thermal.passes < WsBudget(mode)
    /\ wsSent' = [wsSent EXCEPT !.thermal = WsPass(@, latest_frame)]
    /\ UNCHANGED <<settingsVars, sharedVars, thermalVars, torqueVars, historyVars,
                   now, mode, scale>>

\* websocket_torque: one pass of the while-True loop.
WsTorqueSend ==
    /\ wsSent.torque.passes < WsBudget(mode)
    /\ wsSent' = [wsSent EXCEPT !.torque = WsPass(@, latest_torque)]
    /\ UNCHANGED <<settingsVars, sharedVars, thermalVars, torqueVars, historyVars,
                   now, mode, scale>>

\* ------------------------------------------------------------ clock
Tick ==
    /\ \E t \in Instants :
          /\ t > now
          /\ now' = t
    /\ UNCHANGED <<settingsVars, sharedVars, thermalVars, torqueVars, historyVars,
                   mode, wsSent, scale>>

\* ------------------------------------------------------------ scale comparison
NoDecision == [alert |-> FALSE, severity |-> "none"]
NoScale == [c |-> 0, cfg |-> DEFAULT_SETTINGS, done |-> FALSE,
            asCelsius |-> NoDecision, asKelvin |-> NoDecision,
            thrCelsius |-> 0, thrKelvin |-> 0]

\* The threshold normalisation and the event detection applied to the sample
\* c delivered in Celsius and to the same sample delivered on the absolute
\* scale, c + 273.15.
ScaleEvaluate ==
    /\ ~scale.done
    /\ scale' = [scale EXCEPT !.done = TRUE,
                              !.asCelsius = ThermalDecision(scale.c, scale.cfg),
                              !.asKelvin = ThermalDecision(scale.c + 27315, scale.cfg),
                              !.thrCelsius =
                                  thr_in_same_unit(scale.c, scale.cfg.thermal_threshold_c),
                              !.thrKelvin =
                                  thr_in_same_unit(scale.c + 27315,
                                                   scale.cfg.thermal_threshold_c)]
    /\ UNCHANGED <<settingsVars, sharedVars, thermalVars, torqueVars, historyVars,
                   now, mode, wsSent>>

\* ------------------------------------------------------------ specifications
\* The state after the module is loaded with settings s0 on disk and no events.log.
Boot(m, s0, sc) ==
    /\ settings = s0
    /\ settingsFile = [exists |-> TRUE, text |-> JsonDump(s0)]
    /\ settingsLock = "free"
    /\ upPc = [u \in Updaters |-> "idle"]
    /\ upArg = [u \in Updaters |-> 0]
    /\ persisted = s0
    /\ lastReload = None
    /\ lastSet = None
    /\ latest_frame = None
    /\ latest_torque = None
    /\ frame_history = <<>>
    /\ error_log = <<>>
    /\ last_error_time = [k \in {} |-> 0]
    /\ eventsFile = <<>>
    /\ sink = EmptySink
    /\ now = 0
    /\ mode = m
    /\ thPc = "accept"
    /\ thBuf = <<>>
    /\ thObj = None
    /\ thThr = None
    /\ thEvent = None
    /\ nThermal = 0
    /\ tqPc = "accept"
    /\ tqBuf = <<>>
    /\ tqPkt = None
    /\ tqJ = 1
    /\ tqEvent = None
    /\ tqExit = "none"
    /\ nTorque = 0
    /\ wsSent = [thermal |-> NoPasses, torque |-> NoPasses]
    /\ scale = sc
    /\ candidates = [k \in {} |-> <<>>]
    /\ arrivals = <<>>
    /\ torque_arrivals = <<>>

\* The whole ingestion side: both listeners, both websocket loops, the clock.
Init == Boot("system", DEFAULT_SETTINGS, NoScale)

Next ==
    \/ ThermalAccept
    \/ ThermalRecvChunk
    \/ ThermalRecvEOF
    \/ ThermalRecvError
    \/ ThermalLine
    \/ ThermalReadSettings
    \/ ThermalEvaluate
    \/ ThermalWriteEvent
    \/ TorqueAccept
    \/ TorqueRecvChunk
    \/ TorqueRecvEOF
    \/ TorqueRecvError
    \/ TorqueLine
    \/ TorqueJoint
    \/ TorqueWriteEvent
    \/ TorquePublish
    \/ WsThermalSend
    \/ WsTorqueSend
    \/ Tick

Spec == Init /\ [][Next]_vars

\* Both listeners fed frames that all breach their thresholds, and the clock.
DedupInit == Boot("dedup", DEFAULT_SETTINGS, NoScale)

DedupNext ==
    \/ ThermalAccept
    \/ ThermalRecvChunk
    \/ ThermalLine
    \/ ThermalReadSettings
    \/ ThermalEvaluate
    \/ ThermalWriteEvent
    \/ TorqueAccept
    \/ TorqueRecvChunk
    \/ TorqueLine
    \/ TorqueJoint
    \/ TorqueWriteEvent
    \/ TorquePublish
    \/ Tick

DedupSpec == DedupInit /\ [][DedupNext]_vars

\* The thermal listener alone, fed well-formed and malformed lines.
ThermalInit == Boot("thermal", DEFAULT_SETTINGS, NoScale)

ThermalNext ==
    \/ ThermalAccept
    \/ ThermalRecvChunk
    \/ ThermalRecvEOF
    \/ ThermalRecvError
    \/ ThermalLine
    \/ ThermalReadSettings
    \/ ThermalEvaluate
    \/ ThermalWriteEvent
    \/ Tick

ThermalSpec == ThermalInit /\ [][ThermalNext]_vars

\* The torque listener alone, fed well-formed and malformed lines.
TorqueInit == Boot("torque", DEFAULT_SETTINGS, NoScale)

TorqueNext ==
    \/ TorqueAccept
    \/ TorqueRecvChunk
    \/ TorqueRecvEOF
    \/ TorqueRecvError
    \/ TorqueLine
    \/ TorqueJoint
    \/ TorqueWriteEvent
    \/ TorquePublish
    \/ Tick

TorqueSpec == TorqueInit /\ [][TorqueNext]_vars

\* The settings API under concurrent calls, and restarts of the process.
SettingsInit == \E s0 \in InitialSettings : Boot("settings", s0, NoScale)

SettingsNext ==
    \/ \E u \in Updaters : \E x \in SetValues : SetMutate(u, x)
    \/ \E u \in Updaters : SaveOpen(u)
    \/ \E u \in Updaters : SaveDump(u)
    \/ Restart

SettingsSpec == SettingsInit /\ [][SettingsNext]_vars

\* The thermal listener fed numbered frames below the threshold, past the
\* capacity of the rolling history.
HistoryInit == Boot("history", DEFAULT_SETTINGS, NoScale)

HistoryNext ==
    \/ ThermalAccept
    \/ ThermalRecvChunk
    \/ ThermalLine
    \/ ThermalReadSettings
    \/ ThermalEvaluate

HistorySpec == HistoryInit /\ [][HistoryNext]_vars

\* One sample in both scales, for every sample and threshold set: the unit
\* handling applied to it, and the thermal listener fed the sample as a frame.
ScaleInit ==
    \E c \in ScaleSamples : \E cfg \in ScaleConfigs :
        Boot("scale", cfg, [NoScale EXCEPT !.c = c, !.cfg = cfg])

ScaleNext ==
    \/ ScaleEvaluate
    \/ ThermalAccept
    \/ ThermalRecvChunk
    \/ ThermalLine
    \/ ThermalReadSettings
    \/ ThermalEvaluate
    \/ ThermalWriteEvent

ScaleSpec == ScaleInit /\ [][ScaleNext]_vars

\* Both listeners fed numbered frames over connections that come and go (the
\* thermal frames below the threshold, the torque packets over it), and the
\* two websocket loops.
SubscriberInit == Boot("subscriber", DEFAULT_SETTINGS, NoScale)

SubscriberNext ==
    \/ ThermalAccept
    \/ ThermalRecvChunk
    \/ ThermalRecvEOF
    \/ ThermalRecvError
    \/ ThermalLine
    \/ ThermalReadSettings
    \/ ThermalEvaluate
    \/ TorqueAccept
    \/ TorqueRecvChunk
    \/ TorqueRecvEOF
    \/ TorqueRecvError
    \/ TorqueLine
    \/ TorqueJoint
    \/ TorqueWriteEvent
    \/ TorquePublish
    \/ WsThermalSend
    \/ WsTorqueSend

SubscriberSpec == SubscriberInit /\ [][SubscriberNext]_vars

\* Both listeners fed a fixed byte stream over two connections, cut into
\* chunks in every way.
ChunkInit == Boot("chunk", DEFAULT_SETTINGS, NoScale)

ChunkNext ==
    \/ ThermalAccept
    \/ ThermalRecvChunk
    \/ ThermalRecvEOF
    \/ ThermalLine
    \/ ThermalReadSettings
    \/ ThermalEvaluate
    \/ ThermalWriteEvent
    \/ TorqueAccept
    \/ TorqueRecvChunk
    \/ TorqueRecvEOF
    \/ TorqueLine
    \/ TorqueJoint
    \/ TorqueWriteEvent
    \/ TorquePublish

ChunkSpec == ChunkInit /\ [][ChunkNext]_vars

\* ------------------------------------------------------------ properties
MaxOf(S) == CHOOSE x \in S : \A y \in S : y <= x

\* C1: for every dedup key, a candidate alert is recorded iff no alert for
\* that key was recorded before, or strictly more than 5.0 s have passed since
\* the last recorded alert for that key.
C1_DedupPerKey ==
    \A k \in DOMAIN candidates :
        \A n \in 1..Len(candidates[k]) :
            LET h == candidates[k]
                prior == {m \in 1..(n - 1) : h[m].recorded}
            IN h[n].recorded <=>
                  (prior = {} \/ h[n].at - h[MaxOf(prior)].at > 50)

\* A key whose first candidate was recorded, whose second came within 5.0 s
\* and was suppressed, and whose third came 5.1 s after the first and was
\* recorded again.
C1_Witness ==
    \E k \in DOMAIN candidates :
        LET h == candidates[k]
        IN /\ Len(h) >= 3
           /\ h[1].recorded
           /\ ~h[2].recorded /\ h[2].at - h[1].at <= 50
           /\ h[3].recorded /\ h[3].at - h[1].at = 51

\* The listener is between two lines of its stream.
ThermalBetweenLines == thPc \in {"accept", "recv"}

\* The well-formed frames split off so far that breach the threshold.
BreachingArrivals ==
    {n \in 1..Len(arrivals) :
        arrivals[n].t_max.v >=
            thr_in_same_unit(arrivals[n].t_max.v, settings.thermal_threshold_c)}

ThermalKeys == {k \in DOMAIN candidates : k[1] = "THERMAL"}

RECURSIVE CandidateCount(_)
CandidateCount(K) ==
    IF K = {} THEN 0
    ELSE LET k == CHOOSE x \in K : TRUE
         IN Len(candidates[k]) + CandidateCount(K \ {k})

\* C2: on the thermal stream a malformed line changes nothing for the lines
\* after it: between lines, every well-formed frame received so far is the
\* latest frame when it is the last, is in the rolling history, and was
\* evaluated against the threshold (one candidate alert per breaching frame).
C2_ValidLinesProcessedInFull ==
    ThermalBetweenLines =>
        /\ (arrivals # <<>> => latest_frame = Some(arrivals[Len(arrivals)]))
        /\ frame_history = arrivals
        /\ CandidateCount(ThermalKeys) = Cardinality(BreachingArrivals)

\* C3: a torque line that fails to decode never ends the torque listener.
C3_TorqueDecodeFailureSkipped ==
    ~(tqPc = "dead" /\ tqExit = "decode")

\* C4: no line is partially applied: between lines, the six accumulators of
\* the Sink and the rolling history hold exactly the well-formed frames.
C4_NoPartialApply ==
    ThermalBetweenLines =>
        /\ \A f \in {"timestamps", "mins", "maxs", "means", "image_paths", "frame_nos"} :
              Len(sink[f]) = Len(arrivals)
        /\ Len(frame_history) = Len(arrivals)

\* C5: losing the connection, by end of stream or by an error of recv, never
\* ends a listener: it goes back to accepting.
C5_ListenerSurvivesConnectionLoss ==
    /\ thPc # "dead"
    /\ ~(tqPc = "dead" /\ tqExit = "transport")

\* C6: every step that changes the latest-state slots, the rolling history,
\* the dedup map or the event log, and every websocket read of a latest-state
\* slot, is made under a lock scoped to that structure.
C6_LockDiscipline ==
    [][ /\ latest_frame' # latest_frame => LockScopedTo("latest_frame") # "none"
        /\ latest_torque' # latest_torque => LockScopedTo("latest_torque") # "none"
        /\ frame_history' # frame_history => LockScopedTo("frame_history") # "none"
        /\ last_error_time' # last_error_time => LockScopedTo("last_error_time") # "none"
        /\ error_log' # error_log => LockScopedTo("error_log") # "none"
        /\ wsSent'.thermal # wsSent.thermal => LockScopedTo("latest_frame") # "none"
        /\ wsSent'.torque # wsSent.torque => LockScopedTo("latest_torque") # "none" ]_vars

\* C7: after a crash at any point of a settings update, the settings loaded
\* at the restart are the ones last written in full or the new ones, never
\* anything else.
C7_CrashAtomicSettings ==
    lastReload # None =>
        lastReload[1].after \in {lastReload[1].durable, lastReload[1].before}

\* C8: when set_thermal_settings(x) has returned, no update is in flight and
\* x is still the threshold in memory, a reload from settings.json yields
\* thermal_threshold_c = x and leaves the warning and critical thresholds as
\* they were before the reload.
C8_SettingsRoundTrip ==
    (lastReload # None /\ lastReload[1].quiescent /\ lastReload[1].set # {}) =>
        /\ lastReload[1].after.thermal_threshold_c \in lastReload[1].set
        /\ lastReload[1].after.thermal_warning_c = lastReload[1].before.thermal_warning_c
        /\ lastReload[1].after.thermal_critical_c = lastReload[1].before.thermal_critical_c

\* A reload right after set_thermal_settings(28.5) returned, with a warning
\* threshold that is not the default, has loaded 28.5.
C8_Witness ==
    /\ lastReload # None
    /\ lastReload[1].quiescent
    /\ lastReload[1].set = {2850}
    /\ lastReload[1].before.thermal_warning_c = 3100
    /\ settings = lastReload[1].after
    /\ settings.thermal_threshold_c = 2850

\* C9: the rolling history never holds more than 200 frames, and holds the
\* newest frames (all of them up to 200) in arrival order, oldest first.
C9_HistoryNewest200 ==
    /\ Len(frame_history) <= 200
    /\ frame_history =
          IF Len(arrivals) > 200
          THEN SubSeq(arrivals, Len(arrivals) - 199, Len(arrivals))
          ELSE arrivals

\* After the 201st frame the history holds frames 2..201.
C9_Witness ==
    /\ Len(arrivals) = 201
    /\ Len(frame_history) = 200
    /\ frame_history[1].frame_no = Num(2)
    /\ frame_history[200].frame_no = Num(201)

EventsOf(type) == SelectSeq(error_log, LAMBDA e : e.type = type)

\* C11: a frame alerts iff t_max >= the normalised threshold, and its event
\* is CRITICAL above the normalised critical level, else WARNING above the
\* normalised warning level, else INFO; under 30/30/33, 32.0 gives WARNING
\* and 34.0 gives CRITICAL.
C11_ThresholdEvaluation ==
    /\ scale.done =>
          \A r \in {[v |-> scale.c, d |-> scale.asCelsius],
                    [v |-> scale.c + 27315, d |-> scale.asKelvin]} :
              LET off == IF r.v > 12000 THEN 27315 ELSE 0
                  thr == scale.cfg.thermal_threshold_c + off
                  warn == scale.cfg.thermal_warning_c + off
                  crit == scale.cfg.thermal_critical_c + off
              IN /\ r.d.alert <=> r.v >= thr
                 /\ r.d.alert =>
                       r.d.severity = IF r.v > crit THEN "CRITICAL"
                                      ELSE IF r.v > warn THEN "WARNING"
                                      ELSE "INFO"
    /\ (scale.done /\ scale.cfg = DEFAULT_SETTINGS /\ scale.c = 3200) =>
          scale.asCelsius = [alert |-> TRUE, severity |-> "WARNING"]
    /\ (scale.done /\ scale.cfg = DEFAULT_SETTINGS /\ scale.c = 3400) =>
          scale.asCelsius = [alert |-> TRUE, severity |-> "CRITICAL"]
    /\ \A n \in 1..Len(EventsOf("THERMAL")) :
          LET e == EventsOf("THERMAL")[n]
              off == IF e.meta.t_max > 12000 THEN 27315 ELSE 0
          IN /\ e.meta.t_max >= settings.thermal_threshold_c + off
             /\ e.severity = IF e.meta.t_max > settings.thermal_critical_c + off THEN "CRITICAL"
                             ELSE IF e.meta.t_max > settings.thermal_warning_c + off THEN "WARNING"
                             ELSE "INFO"
    /\ ThermalBetweenLines =>
          CandidateCount(ThermalKeys) =
              Cardinality({n \in 1..Len(arrivals) :
                  arrivals[n].t_max.v >=
                      settings.thermal_threshold_c +
                          (IF arrivals[n].t_max.v > 12000 THEN 27315 ELSE 0)})

\* 34.0 C under 30/30/33 has been evaluated as CRITICAL, and the listener has
\* recorded a CRITICAL event for the frame carrying it.
C11_Witness ==
    /\ scale.done
    /\ scale.c = 3400
    /\ scale.cfg = DEFAULT_SETTINGS
    /\ scale.asCelsius = [alert |-> TRUE, severity |-> "CRITICAL"]
    /\ Len(error_log) = 1
    /\ error_log[1].severity = "CRITICAL"
    /\ error_log[1].meta.t_max = 3400

\* C12: the normalised threshold is the configured one for a sample at or
\* below 120.0 and the configured one + 273.15 for a sample above 120.0, and
\* the sample is stored as received: in the latest frame, the history, the
\* Sink and the event.
C12_ThresholdNormalisation ==
    /\ scale.done =>
          /\ scale.c <= 12000 => scale.thrCelsius = scale.cfg.thermal_threshold_c
          /\ scale.c > 12000 => scale.thrCelsius = scale.cfg.thermal_threshold_c + 27315
          /\ scale.c + 27315 <= 12000 => scale.thrKelvin = scale.cfg.thermal_threshold_c
          /\ scale.c + 27315 > 12000 =>
                scale.thrKelvin = scale.cfg.thermal_threshold_c + 27315
    /\ latest_frame # None => latest_frame[1] = arrivals[Len(arrivals)]
    /\ frame_history = arrivals
    /\ sink.maxs = [n \in 1..Len(arrivals) |-> arrivals[n].t_max.v]
    /\ \A n \in 1..Len(EventsOf("THERMAL")) :
          LET e == EventsOf("THERMAL")[n]
          IN /\ \E m \in 1..Len(arrivals) : arrivals[m].t_max.v = e.meta.t_max
             /\ e.meta.threshold =
                    IF e.meta.t_max > 12000 THEN e.meta.threshold_c + 27315
                    ELSE e.meta.threshold_c
             /\ e.meta.threshold_c = settings.thermal_threshold_c

\* The sample 120.0, the largest read as Celsius, sent on the absolute scale
\* as 393.15: the threshold 35.0 stays 35.0 for the first and becomes 308.15
\* for the second, and the frame carrying 393.15 is stored with that value.
C12_Witness ==
    /\ scale.done
    /\ scale.c = 12000
    /\ scale.cfg.thermal_threshold_c = 3500
    /\ scale.thrCelsius = 3500
    /\ scale.thrKelvin = 30815
    /\ latest_frame # None
    /\ latest_frame[1].t_max.v = 39315
    /\ error_log # <<>>
    /\ error_log[1].meta.threshold = 30815

\* The torque listener is between two lines of its stream, and running.
TorqueBetweenLines == tqPc \in {"accept", "recv"}

\* The candidate alerts noted so far for the joint j.
JointCandidates(j) ==
    IF <<"TORQUE", j>> \in DOMAIN candidates THEN candidates[<<"TORQUE", j>>] ELSE <<>>

\* C13: diffs[j] = |actual[j] - ideal[j]| and anomaly iff some diff > 0.47;
\* every joint over 0.47 of every frame is a candidate under the key of its
\* own joint number, and the first candidate of a joint is recorded whatever
\* the cooldown of the other joints; equal vectors give diffs 0 and no
\* anomaly; a recorded event carries its joint's diff, and a diff of 0.5 is a
\* WARNING.
C13_TorqueEvaluation ==
    /\ \A n \in 1..Len(torque_arrivals) :
          LET p == torque_arrivals[n]
          IN /\ \A j \in 1..Len(p.diffs) :
                   p.diffs[j] = IF p.torque_actual[j].v >= p.torque_ideal[j].v
                                THEN p.torque_actual[j].v - p.torque_ideal[j].v
                                ELSE p.torque_ideal[j].v - p.torque_actual[j].v
             /\ p.anomaly <=> \E j \in 1..Len(p.diffs) : p.diffs[j] > 47
             /\ p.torque_actual = p.torque_ideal =>
                   /\ ~p.anomaly
                   /\ \A j \in 1..Len(p.diffs) : p.diffs[j] = 0
    /\ TorqueBetweenLines =>
          \A j \in 1..2 :
              Len(JointCandidates(j)) =
                  Cardinality({n \in 1..Len(torque_arrivals) :
                                  torque_arrivals[n].diffs[j] > 47})
    /\ \A j \in 1..2 : JointCandidates(j) # <<>> => JointCandidates(j)[1].recorded
    /\ \A n \in 1..Len(EventsOf("TORQUE")) :
          LET e == EventsOf("TORQUE")[n]
          IN /\ e.meta.diff > 47
             /\ \E m \in 1..Len(torque_arrivals) :
                   torque_arrivals[m].diffs[e.meta.joint] = e.meta.diff
             /\ e.meta.diff = 50 => e.severity = "WARNING"

\* Joint 1 alerted in a first frame; in a second frame within its cooldown
\* joints 1 and 2 are both over the threshold: joint 1 is suppressed, joint 2
\* is recorded, and the frame is published.
C13_Witness ==
    /\ TorqueBetweenLines
    /\ Len(torque_arrivals) = 2
    /\ torque_arrivals[1].diffs = <<50, 0>>
    /\ torque_arrivals[2].diffs = <<50, 80>>
    /\ latest_torque = Some(torque_arrivals[2])
    /\ Len(JointCandidates(1)) = 2
    /\ ~JointCandidates(1)[2].recorded
    /\ Len(JointCandidates(2)) = 1
    /\ JointCandidates(2)[1].recorded
    /\ Len(error_log) = 2
    /\ error_log[1].severity = "WARNING"
    /\ error_log[2].meta.joint = 2

\* C14: every pass of a websocket loop transmits something, so a subscriber
\* attached before the first frame is sent a "no data" indication.
C14_NoDataIndication ==
    /\ Len(wsSent.thermal.sent) = wsSent.thermal.passes
    /\ Len(wsSent.torque.sent) = wsSent.torque.passes

\* C15: a step that closes a producer connection (end of stream or an error
\* of recv) leaves the latest-state slots, the rolling history, the dedup map
\* and the event log as they were, and a pass of a websocket loop made while
\* the listener is disconnected still transmits the last ingested frame.
C15_StateSurvivesDisconnect ==
    [][ /\ ( \/ (thPc = "recv" /\ thPc' = "accept")
             \/ (tqPc = "recv" /\ tqPc' \in {"accept", "dead"}) ) =>
              UNCHANGED <<latest_frame, latest_torque, frame_history, last_error_time,
                          error_log, eventsFile>>
        /\ (thPc = "accept" /\ arrivals # <<>> /\ wsSent'.thermal # wsSent.thermal) =>
              wsSent'.thermal.sent = Append(wsSent.thermal.sent, arrivals[Len(arrivals)])
        /\ (tqPc \in {"accept", "dead"} /\ latest_torque # None
                /\ wsSent'.torque # wsSent.torque) =>
              wsSent'.torque.sent = Append(wsSent.torque.sent, latest_torque[1]) ]_vars

\* The thermal connection is closed after two frames, the torque listener
\* has lost its connection, and everything published is still there: the
\* second frame is the latest and has been transmitted twice, the history
\* holds both frames, the event log and the dedup map the torque alert.
C15_Witness ==
    /\ thPc = "accept"
    /\ Len(arrivals) = 2
    /\ latest_frame = Some(arrivals[2])
    /\ frame_history = arrivals
    /\ wsSent.thermal.sent = <<arrivals[2], arrivals[2]>>
    /\ tqPc = "accept"
    /\ latest_torque # None
    /\ Len(error_log) = 1
    /\ DOMAIN last_error_time = {<<"TORQUE", 1>>}

\* The frame numbers of the snapshots a websocket loop has transmitted.
SentNos(w) == [n \in 1..Len(w.sent) |-> w.sent[n].frame_no.v]

\* C16: every transmission of a websocket loop carries the frame in the
\* latest-state slot at the moment of the send, which is the last frame
\* ingested; the frames a subscriber receives never go back in arrival order.
C16_LastValueWins ==
    /\ [](\A ch \in {"thermal", "torque"} :
            \A n \in 1..(Len(wsSent[ch].sent) - 1) :
                SentNos(wsSent[ch])[n] <= SentNos(wsSent[ch])[n + 1])
    /\ [][ /\ wsSent'.thermal.sent # wsSent.thermal.sent =>
                /\ wsSent'.thermal.sent = Append(wsSent.thermal.sent, latest_frame[1])
                /\ latest_frame[1] = arrivals[Len(arrivals)]
           /\ wsSent'.torque.sent # wsSent.torque.sent =>
                /\ wsSent'.torque.sent = Append(wsSent.torque.sent, latest_torque[1])
                /\ \A n \in 1..Len(torque_arrivals) :
                      torque_arrivals[n].frame_no.v > latest_torque[1].frame_no.v =>
                          (n = Len(torque_arrivals) /\ tqPc \in {"joints", "write", "publish"})
         ]_vars

\* A subscriber that was sent frame 1 and then frame 2, and one that was sent
\* packet 2 twice, packet 1 having been superseded before its first pass.
C16_Witness ==
    /\ SentNos(wsSent.thermal) = <<1, 2>>
    /\ SentNos(wsSent.torque) = <<2, 2>>
    /\ latest_frame # None /\ latest_frame[1].frame_no.v = 2

\* The candidate alerts noted so far for the key k.
CandidatesOf(k) == IF k \in DOMAIN candidates THEN candidates[k] ELSE <<>>

\* C17: a step in which a candidate alert is suppressed leaves the event log,
\* events.log and the whole dedup map unchanged, and the time kept for a key
\* is always the time of a recorded alert of that key, never of a suppressed
\* candidate.
C17_SuppressedHasNoEffect ==
    /\ [](\A k \in DOMAIN last_error_time :
            \E n \in 1..Len(CandidatesOf(k)) :
                /\ CandidatesOf(k)[n].recorded
                /\ CandidatesOf(k)[n].at = last_error_time[k])
    /\ [][ \A k \in DOMAIN candidates' :
              ( /\ Len(candidates'[k]) = Len(CandidatesOf(k)) + 1
                /\ ~candidates'[k][Len(candidates'[k])].recorded ) =>
                  UNCHANGED <<error_log, eventsFile, last_error_time>> ]_vars

\* A thermal alert recorded at time 0 and a candidate for the same frame
\* number suppressed exactly 5.0 s later: one event in memory and on disk,
\* and the dedup time of the key still 0.
C17_Witness ==
    /\ CandidatesOf(<<"THERMAL", 1>>) =
           <<[at |-> 0, recorded |-> TRUE], [at |-> 50, recorded |-> FALSE]>>
    /\ last_error_time[<<"THERMAL", 1>>] = 0
    /\ Len(EventsOf("THERMAL")) = 1
    /\ Len(SelectSeq(eventsFile, LAMBDA e : e.type = "THERMAL")) = 1
    /\ now = 50

\* The frame numbers of a sequence of frames or packets.
FrameNumbers(q) == [n \in 1..Len(q) |-> q[n].frame_no.v]

Increasing(q) == \A n \in 1..(Len(q) - 1) : q[n] < q[n + 1]

\* C18: within a stream, frames are applied in the order of the wire (the
\* frames of the "chunk" run are numbered in that order): the latest-state
\* slot only moves to a later frame, the history and the events of each
\* stream are in that order, and a frame is applied only when the frame
\* before it has been processed to the end, its event written.
C18_ArrivalOrder ==
    /\ [](/\ Increasing(FrameNumbers(frame_history))
          /\ Increasing([n \in 1..Len(EventsOf("THERMAL")) |->
                            EventsOf("THERMAL")[n].meta.frame_no])
          /\ Increasing([n \in 1..Len(EventsOf("TORQUE")) |->
                            10 * EventsOf("TORQUE")[n].meta.frame_no.v
                               + EventsOf("TORQUE")[n].meta.joint])
          /\ thObj # None => thObj = latest_frame)
    /\ [][ /\ latest_frame' # latest_frame =>
                /\ thObj = None /\ thEvent = None
                /\ SelectSeq(eventsFile, LAMBDA e : e.type = "THERMAL") = EventsOf("THERMAL")
                /\ latest_frame # None =>
                      latest_frame'[1].frame_no.v > latest_frame[1].frame_no.v
           /\ torque_arrivals' # torque_arrivals =>
                /\ tqPkt = None /\ tqEvent = None
                /\ SelectSeq(eventsFile, LAMBDA e : e.type = "TORQUE") = EventsOf("TORQUE")
                /\ torque_arrivals # <<>> =>
                      latest_torque = Some(torque_arrivals[Len(torque_arrivals)])
           /\ (latest_torque' # latest_torque /\ latest_torque # None) =>
                latest_torque'[1].frame_no.v > latest_torque[1].frame_no.v
         ]_vars

\* Frames 1 and 2 arrived in one buffer and frame 4 on the next connection;
\* all were applied in that order, with their events, and packets 1 and 3.
C18_Witness ==
    /\ FrameNumbers(frame_history) = <<1, 2, 4>>
    /\ Len(EventsOf("THERMAL")) = 3
    /\ EventsOf("THERMAL")[3].meta.frame_no = 4
    /\ latest_frame # None /\ latest_frame[1].frame_no.v = 4
    /\ FrameNumbers(torque_arrivals) = <<1, 3>>
    /\ latest_torque # None /\ latest_torque[1].frame_no.v = 3
    /\ Len(EventsOf("TORQUE")) = 2

\* The texts of the complete lines among the first n bytes of a stream, read
\* one byte at a time, each connection starting from nothing.
RECURSIVE Scan(_, _, _, _, _)
Scan(stream, n, i, text, out) ==
    IF i > n THEN out
    ELSE IF stream[i].b = "eof" THEN Scan(stream, n, i + 1, <<>>, out)
    ELSE IF stream[i].b = "lf" THEN Scan(stream, n, i + 1, <<>>, Append(out, text))
    ELSE Scan(stream, n, i + 1, Append(text, stream[i]), out)

\* The frame numbers of those lines.
CompleteLines(stream, n) ==
    LET texts == Scan(stream, n, 1, <<>>, <<>>)
    IN [k \in 1..Len(texts) |-> texts[k][1].line.frame_no.v]

\* C19: however the stream is cut into chunks, between lines the frames
\* decoded so far are exactly the complete lines among the bytes delivered;
\* the bytes after the last line feed of a connection (frame 3, packet 2)
\* are never applied, at the close or on the next connection.
C19_ChunkingIndependent ==
    /\ ThermalBetweenLines =>
          FrameNumbers(arrivals) = CompleteLines(ThermalStream, nThermal)
    /\ TorqueBetweenLines =>
          FrameNumbers(torque_arrivals) = CompleteLines(TorqueStream, nTorque)
    /\ FrameNumbers(frame_history) = FrameNumbers(arrivals)
    /\ \A n \in 1..Len(arrivals) : arrivals[n].frame_no.v # 3
    /\ \A n \in 1..Len(torque_arrivals) : torque_arrivals[n].frame_no.v # 2
    /\ latest_torque # None => latest_torque[1].frame_no.v # 2
    /\ tqPc # "dead"

\* Both streams delivered to the end over their two connections: frames 1, 2
\* and 4 and packets 1 and 3 decoded, the cut-off frame 3 and packet 2 not.
C19_Witness ==
    /\ nThermal = Len(ThermalStream)
    /\ thPc = "accept"
    /\ FrameNumbers(arrivals) = <<1, 2, 4>>
    /\ nTorque = Len(TorqueStream)
    /\ tqPc = "accept"
    /\ FrameNumbers(torque_arrivals) = <<1, 3>>

\* C20: whenever both listeners are between frames, the in-memory event log
\* and events.log hold the same events in the same order.
C20_LogMatchesSink ==
    (ThermalBetweenLines /\ TorqueBetweenLines) => error_log = eventsFile

\* No call of set_thermal_settings is between its entry and its return.
AllUpdatesReturned == \A u \in Updaters : upPc[u] \in {"idle", "returned"}

\* C21: once every call of set_thermal_settings of this run has returned,
\* settings.json holds the in-memory settings, and their threshold is the
\* one assigned by the call that assigned last.
C21_ConcurrentUpdatesConverge ==
    (AllUpdatesReturned /\ lastSet # None) =>
        /\ settingsFile.exists
        /\ load_settings(settingsFile).settings = settings
        /\ persisted = settings
        /\ settings.thermal_threshold_c = lastSet[1].x

\* Two calls with different thresholds have both returned; call1 assigned
\* 36.0 while call2 had assigned 28.5 and not saved yet.
C21_Witness ==
    /\ upPc = [u \in Updaters |-> "returned"]
    /\ upArg["call1"] = 3600
    /\ upArg["call2"] = 2850
    /\ lastSet = Some([by |-> "call1", x |-> 3600, overlapped |-> TRUE])
    /\ settings.thermal_threshold_c = 3600
    /\ settingsFile.text = JsonDump(settings)

\* C22: every TORQUE event, in error_log and in events.log, has severity
\* WARNING or CRITICAL and a diff over 0.47; every diff over 0.47 that
\* arrived is given one of these two severities.
C22_TorqueNeverInfo ==
    /\ \A n \in 1..Len(EventsOf("TORQUE")) :
          /\ EventsOf("TORQUE")[n].severity \in {"WARNING", "CRITICAL"}
          /\ EventsOf("TORQUE")[n].meta.diff > TORQUE_THRESHOLD
    /\ \A n \in 1..Len(eventsFile) :
          eventsFile[n].type = "TORQUE" => eventsFile[n].severity \in {"WARNING", "CRITICAL"}
    /\ \A n \in 1..Len(torque_arrivals) :
          \A j \in 1..Len(torque_arrivals[n].diffs) :
              torque_arrivals[n].diffs[j] > TORQUE_THRESHOLD =>
                  TorqueSeverity(torque_arrivals[n].diffs[j]) \in {"WARNING", "CRITICAL"}

\* A packet with diffs 0.48 and 0.40 has been evaluated: joint 1 has a
\* WARNING event, written to events.log, and joint 2 has none.
C22_Witness ==
    /\ TorqueBetweenLines
    /\ Len(torque_arrivals) = 1
    /\ torque_arrivals[1].diffs = <<48, 40>>
    /\ Len(EventsOf("TORQUE")) = 1
    /\ EventsOf("TORQUE")[1].meta.joint = 1
    /\ EventsOf("TORQUE")[1].meta.diff = 48
    /\ EventsOf("TORQUE")[1].severity = "WARNING"
    /\ eventsFile = error_log
====
